---------------------------- MODULE Spec2Model ----------------------------
(***************************************************************************)
(* Tenebrio Farm: the stock ledger, the SQLAlchemy session used by the     *)
(* request handlers, the smart_begin transaction helper and the handlers   *)
(* that write FeedEvent / SieveEvent / ProductionTask / StockMove rows.    *)
(*                                                                         *)
(* Quantities (kg, Float columns) are modelled as integers.  The database  *)
(* is the default one of settings.py: SQLite through Python's sqlite3      *)
(* driver in its default (legacy) transaction mode, where the driver       *)
(* issues BEGIN only before an INSERT/UPDATE/DELETE, a SAVEPOINT executed  *)
(* outside a transaction opens one, and RELEASE of that outermost          *)
(* savepoint commits it.                                                   *)
(***************************************************************************)
EXTENDS Integers, Sequences, FiniteSets, TLC

VARIABLES
    store,   \* committed rows of the database file, in insertion order
    db,      \* the request's Session and its DBAPI connection
    blk,     \* the smart_begin block being executed: "none", "begin", "nested"
    entry,   \* what the session was when the smart_begin block was entered
    exc,     \* the exception that reached the caller of the last operation
    last,    \* the last session operation and its outcome
    pc,      \* position of the running request handler
    req,     \* the request being handled
    resp,    \* the response of the handled request
    pre,     \* committed rows when the request arrived
    created, \* ui_production_record: pallets written so far in the block
    nreq     \* number of requests received

vars == <<store, db, blk, entry, exc, last, pc, req, resp, pre, created, nreq>>

None == "None"

--------------------------------------------------------------------------
(* Bounds *)

MaxRequests == 2

MaxTxRows == 3

--------------------------------------------------------------------------
(* Static tables: items (seed.py and POST /stock/items) and pallets *)

SeedQtyKg == 50

ItemCategory == (1 :> "frass") @@ (2 :> "feed") @@ (3 :> "feed") @@ (4 :> "frass")

ItemIds == DOMAIN ItemCategory

\* Item.name: the items in alphabetical order of their names
\* ("Frass", "Frass fino", "Salvado", "Zanahoria")
ItemsByName == <<1, 4, 2, 3>>

\* Item.min_threshold and Item.critical_threshold (nullable, default 0.0):
\* <<>> is None
ItemMinThreshold == (1 :> <<0>>) @@ (2 :> <<>>) @@ (3 :> <<50>>) @@ (4 :> <<0>>)

ItemCriticalThreshold == (1 :> <<0>>) @@ (2 :> <<>>) @@ (3 :> <<5>>) @@ (4 :> <<>>)

\* the pallets in the order the pallet query returns them
PalletOrder == <<"p1", "p2">>

PalletTrayCount == [p \in {"p1", "p2"} |-> IF p = "p1" THEN 1 ELSE 2]

PalletStatus == [p \in {"p1", "p2"} |-> IF p = "p1" THEN "active" ELSE "cleaning"]

PalletIds == DOMAIN PalletTrayCount

--------------------------------------------------------------------------
(* Rows *)

\* ref_id strings are sequences of character codes; NULL is the empty sequence
NoRef == <<>>

DEMO == <<68, 69, 77, 79>>

\* str(n) of a non-negative integer id: its decimal digits, most significant first
RECURSIVE str(_)
str(n) == IF n < 10 THEN <<48 + n>> ELSE Append(str(n \div 10), 48 + (n % 10))

\* an optional number (Python None or a number) is <<>> or <<n>>
NoNum == <<>>

Some(n) == <<n>>

Val(v) == v[1]

StockMove(item_id, move_type, qty_kg, ref_type, ref_id) ==
    [t |-> "move", id |-> 0, item_id |-> item_id, move_type |-> move_type,
     qty_kg |-> qty_kg, ref_type |-> ref_type, ref_id |-> ref_id]

FeedEvent(pallet_id, item_id, qty_total_kg) ==
    [t |-> "feed", id |-> 0, pallet_id |-> pallet_id, item_id |-> item_id,
     qty_total_kg |-> qty_total_kg]

SieveEvent(pallet_id, frass_item_id, frass_kg) ==
    [t |-> "sieve", id |-> 0, pallet_id |-> pallet_id,
     frass_item_id |-> frass_item_id, frass_kg |-> frass_kg]

ProductionTask(pallet_id, feed1_item_id, feed2_item_id) ==
    [t |-> "task", id |-> 0, pallet_id |-> pallet_id,
     feed1_item_id |-> feed1_item_id, feed2_item_id |-> feed2_item_id]

Table(rows, t) == SelectSeq(rows, LAMBDA r : r.t = t)

RECURSIVE MaxId(_)
MaxId(rows) ==
    IF rows = <<>> THEN 0
    ELSE LET m == MaxId(Tail(rows))
         IN  IF Head(rows).id > m THEN Head(rows).id ELSE m

\* rows the seed has put in tables whose rows the model keeps as constants:
\* the items above, four rooms ("Sala 1".."Sala 4") and this month's BatchMonth
SeededIds(t) ==
    CASE t = "item" -> Cardinality(ItemIds)
      [] t = "room" -> 4
      [] t = "bm" -> 1
      [] OTHER -> 0

\* autoincrement primary key: SQLite gives max(rowid) + 1 of the table
NextId(rows, t) ==
    LET m == MaxId(Table(rows, t))
    IN  (IF m > SeededIds(t) THEN m ELSE SeededIds(t)) + 1

--------------------------------------------------------------------------
(* The Session (SQLAlchemy) over the sqlite3 connection.  S is a record    *)
(*   trans   depth of the session's transaction chain (0 = none begun)     *)
(*   dbTx    the connection is inside a SQLite transaction                 *)
(*   spOuter that SQLite transaction was opened by a SAVEPOINT             *)
(*   sp      the live savepoints: the number of pending rows at each       *)
(*   stale   a savepoint that was rolled back to is still on SQLite's      *)
(*           stack (ROLLBACK TO does not release it)                       *)
(*   pend    rows inserted in the open SQLite transaction                  *)
(*   new     objects added to the session and not flushed yet (the session *)
(*           is made with autoflush=False: queries do not see them)        *)
(*   com     committed rows                                                *)
(*   err     an error raised by the session itself                         *)

SessFields == {"trans", "dbTx", "spOuter", "sp", "stale", "pend", "new", "err"}

NewSession ==
    [trans |-> 0, dbTx |-> FALSE, spOuter |-> FALSE, sp |-> <<>>,
     stale |-> FALSE, pend |-> <<>>, new |-> <<>>, err |-> None]

Cur ==
    [trans |-> db.trans, dbTx |-> db.dbTx, spOuter |-> db.spOuter, sp |-> db.sp,
     stale |-> db.stale, pend |-> db.pend, new |-> db.new, err |-> db.err,
     com |-> store]

Put(S) ==
    /\ db' = [f \in SessFields |-> S[f]]
    /\ store' = S.com

\* what a query of the session sees
View(S) == S.com \o S.pend

in_transaction(S) == S.trans # 0

\* autobegin: any query or flush begins the session's transaction
Autobegin(S) == IF S.trans = 0 THEN [S EXCEPT !.trans = 1] ELSE S

Query(S) == Autobegin(S)

\* db.add(row)
Add(S, row) == [S EXCEPT !.new = Append(@, row)]

\* db.flush(): INSERT every new object, the driver opening a transaction first
RECURSIVE FlushNew(_)
FlushNew(S) ==
    IF S.new = <<>> THEN S
    ELSE LET A == Autobegin(S)
             r == [Head(S.new) EXCEPT !.id = NextId(View(A), Head(S.new).t)]
         IN  FlushNew([A EXCEPT !.dbTx = TRUE, !.pend = Append(@, r),
                                !.new = Tail(@)])

\* db.add(row); db.flush()
Flush(S, row) == FlushNew(Add(S, row))

DbapiCommit(S) ==
    IF S.dbTx
    THEN [S EXCEPT !.com = @ \o S.pend, !.pend = <<>>, !.dbTx = FALSE,
                   !.spOuter = FALSE, !.sp = <<>>, !.stale = FALSE]
    ELSE S

DbapiRollback(S) ==
    IF S.dbTx
    THEN [S EXCEPT !.pend = <<>>, !.dbTx = FALSE, !.spOuter = FALSE, !.sp = <<>>,
                   !.stale = FALSE]
    ELSE S

\* db.commit() flushes first
Commit(S) == [DbapiCommit(FlushNew(Autobegin(S))) EXCEPT !.trans = 0]

\* db.rollback() also expunges the objects that were never flushed
Rollback(S) == [DbapiRollback(S) EXCEPT !.trans = 0, !.new = <<>>]

\* get_db: finally db.close()
Close(S) == [Rollback(S) EXCEPT !.err = None]

\* db.refresh(obj): a SELECT
Refresh(S) == Query(S)

Begin(S) ==
    IF S.trans # 0
    THEN [S EXCEPT !.err = "A transaction is already begun on this Session"]
    ELSE [S EXCEPT !.trans = 1]

\* db.begin_nested(): SAVEPOINT
BeginNested(S) ==
    LET A == Autobegin(S)
    IN  [A EXCEPT !.trans = @ + 1,
                  !.sp = Append(@, Len(A.pend)),
                  !.spOuter = IF A.dbTx THEN @ ELSE TRUE,
                  !.dbTx = TRUE]

\* leaving `with db.begin_nested()` normally: RELEASE SAVEPOINT
ReleaseSavepoint(S) ==
    LET R == [S EXCEPT !.trans = @ - 1, !.sp = SubSeq(@, 1, Len(@) - 1)]
    IN  IF R.sp = <<>> /\ ~R.stale /\ R.spOuter THEN DbapiCommit(R) ELSE R

RollbackToSavepointReleases(S) == ReleaseSavepoint(S)

\* leaving `with db.begin_nested()` by an exception: ROLLBACK TO SAVEPOINT
RollbackToSavepoint(S) ==
    [S EXCEPT !.trans = @ - 1,
              !.pend = SubSeq(@, 1, S.sp[Len(S.sp)]),
              !.sp = SubSeq(@, 1, Len(@) - 1),
              !.stale = TRUE]

(* smart_begin *)

SmartKindAlwaysBegin(S) == "begin"

SmartKind(S) == IF in_transaction(S) THEN "nested" ELSE "begin"

SmartEnter(S) == IF SmartKind(S) = "nested" THEN BeginNested(S) ELSE Begin(S)

SmartExitNoRollback(S, kind) ==
    IF kind = "nested" THEN [S EXCEPT !.trans = @ - 1] ELSE Rollback(S)

SmartExit(S, kind) == IF kind = "nested" THEN ReleaseSavepoint(S) ELSE Commit(S)

SmartExitRaise(S, kind) ==
    IF kind = "nested" THEN RollbackToSavepoint(S) ELSE Rollback(S)

--------------------------------------------------------------------------
(* crud *)

RECURSIVE SignedSum(_, _)
SignedSum(rows, item_id) ==
    IF rows = <<>> THEN 0
    ELSE LET m == Head(rows)
             v == IF m.t = "move" /\ m.item_id = item_id
                  THEN CASE m.move_type = "in" -> m.qty_kg
                         [] m.move_type = "out" -> 0 - m.qty_kg
                         [] OTHER -> m.qty_kg
                  ELSE 0
         IN  v + SignedSum(Tail(rows), item_id)

get_stock_qty_unsigned(S, item_id) ==
    LET RECURSIVE Total(_)
        Total(rows) ==
            IF rows = <<>> THEN 0
            ELSE (IF Head(rows).t = "move" /\ Head(rows).item_id = item_id
                  THEN (IF Head(rows).move_type = "in" THEN Head(rows).qty_kg
                        ELSE 0 - Head(rows).qty_kg)
                  ELSE 0) + Total(Tail(rows))
    IN  Total(View(S))

get_stock_qty(S, item_id) == SignedSum(View(Query(S)), item_id)

add_stock_move_always_commit(S, move, commit) == Refresh(Commit(Flush(S, move)))

add_stock_move(S, move, commit) ==
    LET F == Flush(S, move)
    IN  IF commit THEN Refresh(Commit(F)) ELSE F

--------------------------------------------------------------------------
(* Initial state: the database after main.py has seeded it (seed.py): a   *)
(* purchase of SeedQtyKg for each feed item; no request is running.        *)

SeedRows ==
    << [StockMove(2, "in", SeedQtyKg, "purchase", DEMO) EXCEPT !.id = 1],
       [StockMove(3, "in", SeedQtyKg, "purchase", DEMO) EXCEPT !.id = 2] >>

NoResp == [code |-> 0, msg |-> ""]

NoEntry == [inTx |-> FALSE, view |-> <<>>, pend |-> <<>>]

Init ==
    /\ store = SeedRows
    /\ db = NewSession
    /\ blk = "none"
    /\ entry = NoEntry
    /\ exc = None
    /\ last = [op |-> "init"]
    /\ pc = "idle"
    /\ req = [op |-> None]
    /\ resp = NoResp
    /\ pre = SeedRows
    /\ created = 0
    /\ nreq = 0

--------------------------------------------------------------------------
(* The session protocol as the handlers drive it: queries, flushes,        *)
(* commits, rollbacks and smart_begin blocks in any order.                 *)

MoveTypes == {"in", "out", "adjust"}

TxQtys == {1, 2}

NoRequest == UNCHANGED <<pc, req, resp, pre, created, nreq>>

\* the operation before the last one, for the record of the last
Brief(l) ==
    [op |-> l.op,
     commit |-> IF l.op = "add_stock_move" THEN l.commit ELSE FALSE,
     id |-> IF l.op = "add_stock_move" THEN l.id ELSE 0]

\* db.query(...).all() / .first()
TxQuery ==
    /\ last.op # "query"
    /\ Put(Query(Cur))
    /\ last' = [op |-> "query"]
    /\ exc' = None
    /\ UNCHANGED <<blk, entry>>
    /\ NoRequest

\* crud.add_stock_move(db, move, commit=...); inside a smart_begin block the
\* handlers pass commit=False.  The flush may raise.
TxAddStockMove(item_id, move_type, qty_kg, commit, fail) ==
    /\ Len(View(Cur)) < Len(SeedRows) + MaxTxRows
    /\ blk = "none" \/ ~commit
    /\ LET move == StockMove(item_id, move_type, qty_kg, "manual", NoRef)
           S == add_stock_move(Cur, move, commit)
       IN  IF ~fail
           THEN /\ Put(S)
                /\ last' = [op |-> "add_stock_move", commit |-> commit,
                            id |-> NextId(View(Cur), "move")]
                /\ exc' = None
                /\ UNCHANGED <<blk, entry>>
           ELSE /\ Put(IF blk = "none" THEN Close(Cur) ELSE SmartExitRaise(Cur, blk))
                /\ last' = [op |-> IF blk = "none" THEN "flush_error" ELSE "raise",
                            kind |-> blk, prev |-> Brief(last)]
                /\ exc' = "DBError"
                /\ blk' = "none"
                /\ UNCHANGED entry
    /\ NoRequest

\* db.commit()
TxCommit ==
    /\ blk = "none"
    /\ in_transaction(Cur)
    /\ Put(Commit(Cur))
    /\ last' = [op |-> "commit"]
    /\ exc' = None
    /\ UNCHANGED <<blk, entry>>
    /\ NoRequest

\* db.rollback()
TxRollback ==
    /\ blk = "none"
    /\ in_transaction(Cur)
    /\ Put(Rollback(Cur))
    /\ last' = [op |-> "rollback", prev |-> Brief(last)]
    /\ exc' = None
    /\ UNCHANGED <<blk, entry>>
    /\ NoRequest

\* the request ends: get_db closes the session, the next request gets a new one
TxClose ==
    /\ blk = "none"
    /\ last.op # "close"
    /\ Put(Close(Cur))
    /\ last' = [op |-> "close", prev |-> Brief(last)]
    /\ exc' = None
    /\ entry' = NoEntry
    /\ UNCHANGED blk
    /\ NoRequest

\* with smart_begin(db):
TxEnter ==
    /\ blk = "none"
    /\ LET S == SmartEnter(Cur)
       IN  /\ Put(S)
           /\ IF S.err # None
              THEN /\ exc' = S.err
                   /\ blk' = "none"
                   /\ UNCHANGED entry
              ELSE /\ exc' = None
                   /\ blk' = SmartKind(Cur)
                   /\ entry' = [inTx |-> in_transaction(Cur), view |-> View(Cur),
                                pend |-> Cur.pend]
    /\ last' = [op |-> "enter"]
    /\ NoRequest

\* the body of the block ends normally
TxExit ==
    /\ blk # "none"
    /\ Put(SmartExit(Cur, blk))
    /\ last' = [op |-> "exit", kind |-> blk]
    /\ exc' = None
    /\ blk' = "none"
    /\ UNCHANGED entry
    /\ NoRequest

\* the body of the block raises
TxRaise ==
    /\ blk # "none"
    /\ Put(SmartExitRaise(Cur, blk))
    /\ last' = [op |-> "raise", kind |-> blk, prev |-> Brief(last)]
    /\ exc' = "Exception"
    /\ blk' = "none"
    /\ UNCHANGED entry
    /\ NoRequest

NextTx ==
    \/ TxQuery
    \/ \E mt \in {"in", "out"}, q \in TxQtys, c \in BOOLEAN, f \in BOOLEAN :
          TxAddStockMove(2, mt, q, c, f)
    \/ TxCommit
    \/ TxRollback
    \/ TxClose
    \/ TxEnter
    \/ TxExit
    \/ TxRaise

SpecTx == Init /\ [][NextTx]_vars

--------------------------------------------------------------------------
(* C4: smart_begin begins a top-level transaction exactly when the session *)
(* has none and a SAVEPOINT exactly when one is active, and the session    *)
(* never raises 'A transaction is already begun on this Session'.          *)
C4_SmartBeginNeverBeginsTwice ==
    /\ db.err = None
    /\ exc # "A transaction is already begun on this Session"
    /\ blk = "begin" => (~entry.inTx /\ db.trans = 1)
    /\ blk = "nested" => (entry.inTx /\ db.trans = 2 /\ Len(db.sp) = 1)

\* a block entered as a SAVEPOINT after a flush of the same session
C4_Witness ==
    /\ blk = "nested"
    /\ last.op = "enter"
    /\ entry.pend # <<>>

(* C5: when the body of a smart_begin block raises, the session is back at *)
(* what it was on entering the block and the exception reaches the caller: *)
(* a top-level block leaves nothing pending, a nested block keeps exactly  *)
(* the rows the outer transaction had flushed before the block.            *)
C5_RaiseRevertsBlock ==
    last.op = "raise" =>
        /\ exc # None
        /\ blk = "none"
        /\ View(Cur) = entry.view
        /\ last.kind = "begin" => (db.pend = <<>> /\ ~in_transaction(Cur))
        /\ last.kind = "nested" => (db.pend = entry.pend /\ in_transaction(Cur))

\* a nested block that had written a row raised, the outer rows being kept
C5_Witness ==
    /\ last.op = "raise"
    /\ last.kind = "nested"
    /\ last.prev.op = "add_stock_move"
    /\ entry.pend # <<>>
    /\ db.pend = entry.pend

(* C10: add_stock_move(commit=False) leaves the move flushed (id assigned) *)
(* and pending, not committed, and a rollback right after it removes it;   *)
(* add_stock_move(commit=True) leaves it committed.                        *)
HasMove(rows, id) == \E k \in 1..Len(rows) : rows[k].t = "move" /\ rows[k].id = id

C10_AddStockMoveCommitFlag ==
    /\ last.op = "add_stock_move" =>
          /\ last.id > 0
          /\ IF last.commit
             THEN HasMove(store, last.id) /\ db.pend = <<>>
             ELSE HasMove(db.pend, last.id) /\ ~HasMove(store, last.id)
    /\ (/\ last.op \in {"rollback", "raise", "close"}
        /\ last.prev.op = "add_stock_move"
        /\ ~last.prev.commit) => ~HasMove(View(Cur), last.prev.id)

\* a move added with commit=False was rolled back by the caller
C10_Witness ==
    /\ last.op = "rollback"
    /\ last.prev.op = "add_stock_move"
    /\ ~last.prev.commit
    /\ ~HasMove(View(Cur), last.prev.id)

--------------------------------------------------------------------------
(* Request handlers.  A request arrives with a new Session (get_db) and    *)
(* the session is closed when the handler returns or raises.               *)

Resp(code, msg) == [code |-> code, msg |-> msg]

Arrive(r) ==
    /\ pc \in {"idle", "done"}
    /\ nreq < MaxRequests
    /\ nreq' = nreq + 1
    /\ req' = r
    /\ pre' = store

\* the handler returns r (or raises, FastAPI answering 500): get_db closes
Finish(S, r) ==
    /\ Put(Close(S))
    /\ resp' = r
    /\ pc' = "done"

NoBlock == UNCHANGED <<blk, entry, last, created>>

\* pallets = db.query(Pallet).filter(Pallet.id.in_(pallet_ids)).all()
FoundPallets(pallet_ids) == SelectSeq(PalletOrder, LAMBDA p : p \in pallet_ids)

\* .filter(Item.category == "frass").order_by(Item.id).first()
FirstFrassItemAny ==
    Some(CHOOSE i \in ItemIds :
            /\ ItemCategory[i] = "frass"
            /\ \A j \in ItemIds : ItemCategory[j] = "frass" => i >= j)

FirstFrassItem ==
    IF \E i \in ItemIds : ItemCategory[i] = "frass"
    THEN Some(CHOOSE i \in ItemIds :
                 /\ ItemCategory[i] = "frass"
                 /\ \A j \in ItemIds : ItemCategory[j] = "frass" => i <= j)
    ELSE NoNum

(* POST /stock/moves *)

NotEnoughStockOffByOne(current, qty_kg) == current + 1 < qty_kg

NotEnoughStock(current, qty_kg) == current < qty_kg

create_stock_move(item_id, move_type, qty_kg, fail) ==
    /\ Arrive([op |-> "create_stock_move", item_id |-> item_id,
               move_type |-> move_type, qty_kg |-> qty_kg])
    /\ LET current == get_stock_qty(Cur, item_id)
           S1 == IF move_type = "out" THEN Query(Cur) ELSE Cur
           move == StockMove(item_id, move_type, qty_kg, "manual", NoRef)
       IN  IF move_type = "out" /\ NotEnoughStock(current, qty_kg)
           THEN Finish(S1, Resp(400, "Not enough stock")) /\ exc' = "HTTPException"
           ELSE IF fail
                THEN Finish(S1, Resp(500, "DBError")) /\ exc' = "DBError"
                ELSE Finish(add_stock_move(S1, move, TRUE), Resp(200, "ok")) /\ exc' = None
    /\ NoBlock

(* POST /events/feed *)

FeedEventCreateFields == {"pallet_id", "item_id", "qty_kg", "note"}

FeedEventColumns ==
    {"id", "created_at", "pallet_id", "item_id", "qty_total_kg", "qty_per_tray_kg",
     "tray_count_used", "note", "pallet", "item"}

SieveEventCreateFields == {"pallet_id", "frass_item_id", "frass_kg", "residue_kg", "note"}

SieveEventColumns ==
    {"id", "created_at", "pallet_id", "frass_item_id", "frass_kg", "residue_kg",
     "note", "pallet", "frass_item"}

\* Model(**payload.model_dump()): the declarative constructor raises TypeError
\* for a keyword that is no attribute of the mapped class
ConstructorAccepts(fields, columns) == fields \subseteq columns

create_feed(pallet_id, item_id, qty_kg) ==
    /\ Arrive([op |-> "create_feed", pallet_id |-> pallet_id, item_id |-> item_id,
               qty_kg |-> qty_kg])
    /\ LET S1 == Query(Cur)
           current == get_stock_qty(S1, item_id)
           ev == FeedEvent(pallet_id, item_id, qty_kg)
           S2 == Refresh(Commit(Flush(S1, ev)))
           sm == StockMove(item_id, "out", qty_kg, "feed",
                           str(MaxId(Table(View(S2), "feed"))))
       IN  IF pallet_id \notin PalletIds
           THEN Finish(S1, Resp(404, "Pallet not found")) /\ exc' = "HTTPException"
           ELSE IF item_id \notin ItemIds
           THEN Finish(S1, Resp(404, "Item not found")) /\ exc' = "HTTPException"
           ELSE IF ItemCategory[item_id] # "feed"
           THEN Finish(S1, Resp(400, "Only feed items can be used in feed events"))
                /\ exc' = "HTTPException"
           ELSE IF current < qty_kg
           THEN Finish(S1, Resp(400, "Not enough feed stock")) /\ exc' = "HTTPException"
           ELSE IF ~ConstructorAccepts(FeedEventCreateFields, FeedEventColumns)
           THEN Finish(S1, Resp(500, "TypeError")) /\ exc' = "TypeError"
           ELSE Finish(add_stock_move(S2, sm, TRUE), Resp(200, "ok")) /\ exc' = None
    /\ NoBlock

(* POST /events/sieve: the event is committed, then the stock move *)

create_sieve(pallet_id, frass_item_id, frass_kg, fail) ==
    /\ Arrive([op |-> "create_sieve", pallet_id |-> pallet_id,
               frass_item_id |-> frass_item_id, frass_kg |-> frass_kg])
    /\ LET S1 == Query(Cur)
           ev == SieveEvent(pallet_id, frass_item_id, frass_kg)
       IN  IF pallet_id \notin PalletIds
           THEN Finish(S1, Resp(404, "Pallet not found")) /\ exc' = "HTTPException"
           ELSE IF frass_item_id \notin ItemIds
           THEN Finish(S1, Resp(404, "Item not found")) /\ exc' = "HTTPException"
           ELSE IF ItemCategory[frass_item_id] # "frass"
           THEN Finish(S1, Resp(400, "frass_item_id must be an item with category='frass'"))
                /\ exc' = "HTTPException"
           ELSE IF ~ConstructorAccepts(SieveEventCreateFields, SieveEventColumns)
           THEN Finish(S1, Resp(500, "TypeError")) /\ exc' = "TypeError"
           ELSE IF fail
           THEN Finish(S1, Resp(500, "DBError")) /\ exc' = "DBError"
           ELSE /\ Put(Refresh(Commit(Flush(S1, ev))))
                /\ pc' = "sieve_move"
                /\ resp' = NoResp
                /\ exc' = None
    /\ NoBlock

create_sieve_move(fail) ==
    /\ pc = "sieve_move"
    /\ LET sm == StockMove(req.frass_item_id, "in", req.frass_kg, "sieve",
                           str(MaxId(Table(View(Cur), "sieve"))))
       IN  IF fail
           THEN Finish(Cur, Resp(500, "DBError")) /\ exc' = "DBError"
           ELSE Finish(add_stock_move(Cur, sm, TRUE), Resp(200, "ok")) /\ exc' = None
    /\ UNCHANGED <<req, pre, nreq>>
    /\ NoBlock

(* Rows written for one pallet inside a smart_begin block: each op is one *)
(* db.add + db.flush; a stock move refers to the event flushed before it.  *)

\* (for a "task" op the two fields carry feed1_item_id and feed2_item_id)
Op(k, item_id, qty) == [k |-> k, item_id |-> item_id, qty |-> qty]

LastId(S, t) == MaxId(Table(View(S), t))

FlushOp(S, op, pallet_id, f) ==
    CASE op.k = "task" ->
            Flush(S, ProductionTask(pallet_id, op.item_id, op.qty))
      [] op.k = "feed_ev" ->
            Flush(S, FeedEvent(pallet_id, op.item_id, op.qty))
      [] op.k = "feed_mv" ->
            add_stock_move(S, StockMove(op.item_id, "out", op.qty, "feed",
                                        str(LastId(S, "feed"))), FALSE)
      [] op.k = "sieve_ev" ->
            Flush(S, SieveEvent(pallet_id, op.item_id, op.qty))
      [] op.k = "sieve_mv" ->
            add_stock_move(S, StockMove(op.item_id, "in", op.qty, "sieve",
                                        str(LastId(S, "sieve"))), FALSE)

RECURSIVE FlushOps(_, _, _, _)
FlushOps(S, ops, pallet_id, f) ==
    IF ops = <<>> THEN S
    ELSE FlushOps(FlushOp(S, Head(ops), pallet_id, f), Tail(ops), pallet_id, f)

\* Python truthiness of an optional number
Truthy(v) == v # NoNum /\ Val(v) # 0

(* POST /ui/rooms/batch, actions "feed" and "sieve" *)

BatchTotal(p, f) ==
    IF PalletStatus[p] # "active" THEN 0
    ELSE IF f.feed_mode = "per_tray" THEN Val(f.feed_qty_per_tray_kg) * PalletTrayCount[p]
    ELSE Val(f.feed_qty_total_kg)

BatchQtyInvalid(f) ==
    IF f.feed_mode = "per_tray"
    THEN f.feed_qty_per_tray_kg = NoNum \/ Val(f.feed_qty_per_tray_kg) <= 0
    ELSE f.feed_qty_total_kg = NoNum \/ Val(f.feed_qty_total_kg) <= 0

RECURSIVE BatchSum(_, _)
BatchSum(pallets, f) ==
    IF pallets = <<>> THEN 0
    ELSE BatchTotal(Head(pallets), f) + BatchSum(Tail(pallets), f)

BatchOps(p, f) ==
    IF f.action = "feed"
    THEN IF PalletStatus[p] # "active" THEN <<>>
         ELSE << Op("feed_ev", Val(f.feed_item_id), BatchTotal(p, f)),
                 Op("feed_mv", Val(f.feed_item_id), BatchTotal(p, f)) >>
    ELSE << Op("sieve_ev", Val(FirstFrassItem), Val(f.sieve_frass_kg)),
            Op("sieve_mv", Val(FirstFrassItem), Val(f.sieve_frass_kg)) >>

\* the session after the first n flushes of the loop over the pallets
RECURSIVE BatchFlush(_, _, _, _)
BatchFlush(S, pallets, f, n) ==
    IF pallets = <<>> \/ n = 0 THEN S
    ELSE LET ops == BatchOps(Head(pallets), f)
             m == IF n < Len(ops) THEN n ELSE Len(ops)
         IN  BatchFlush(FlushOps(S, SubSeq(ops, 1, m), Head(pallets), f),
                        Tail(pallets), f, n - m)

RECURSIVE BatchLen(_, _)
BatchLen(pallets, f) ==
    IF pallets = <<>> THEN 0
    ELSE Len(BatchOps(Head(pallets), f)) + BatchLen(Tail(pallets), f)

BatchError(S, f) ==
    LET pallets == FoundPallets(f.pallet_ids)
    IN  IF f.pallet_ids = {} THEN "No has seleccionado pallets"
        ELSE IF pallets = <<>> THEN "Pallets no encontrados"
        ELSE IF f.action = "feed"
        THEN IF ~Truthy(f.feed_item_id) THEN "Falta alimento"
             ELSE IF Val(f.feed_item_id) \notin ItemIds THEN "Alimento inválido"
             ELSE IF ItemCategory[Val(f.feed_item_id)] # "feed" THEN "Alimento inválido"
             ELSE IF (\E k \in 1..Len(pallets) : PalletStatus[pallets[k]] = "active")
                     /\ BatchQtyInvalid(f)
             THEN (IF f.feed_mode = "per_tray" THEN "Cantidad por bandeja inválida"
                   ELSE "Cantidad total inválida")
             ELSE IF get_stock_qty(S, Val(f.feed_item_id)) < BatchSum(pallets, f)
             THEN "Stock insuficiente"
             ELSE None
        ELSE IF f.sieve_frass_kg = NoNum \/ Val(f.sieve_frass_kg) <= 0
             THEN "Frass kg inválido"
             ELSE IF FirstFrassItem = NoNum THEN "No existe el item Frass"
             ELSE None

\* failAt = 0: no flush fails; failAt = n: the n-th flush of the block raises
ui_rooms_batch_action(f, failAt) ==
    /\ Arrive(f)
    /\ LET S1 == IF f.pallet_ids = {} THEN Cur ELSE Query(Cur)
           pallets == FoundPallets(f.pallet_ids)
           err == BatchError(S1, f)
           kind == SmartKind(S1)
           S2 == SmartEnter(S1)
           n == BatchLen(pallets, f)
       IN  IF err # None
           THEN Finish(S1, Resp(303, err)) /\ exc' = None
           ELSE IF S2.err # None
           THEN Finish(S2, Resp(303, "Falló batch")) /\ exc' = S2.err
           ELSE IF failAt >= 1 /\ failAt <= n
           THEN /\ Finish(SmartExitRaise(BatchFlush(S2, pallets, f, failAt - 1), kind),
                          Resp(303, "Falló batch"))
                /\ exc' = "DBError"
           ELSE /\ Finish(SmartExit(BatchFlush(S2, pallets, f, n), kind), Resp(303, "ok"))
                /\ exc' = None
    /\ NoBlock

(* POST /ui/production/record *)

\* int(s) / float(s.replace(",", ".")) of the form strings used here
ParseNum(v) ==
    CASE v = "0" -> Some(0)
      [] v = "1" -> Some(1)
      [] v = "2" -> Some(2)
      [] v = "3" -> Some(3)
      [] v = "30" -> Some(30)
      [] OTHER -> NoNum

_to_int_or_none(v) == IF v = "" THEN NoNum ELSE ParseNum(v)

_to_float_or_none(v) == IF v = "" THEN NoNum ELSE ParseNum(v)

ValidDay(day) == day = "2024-05-01"

feed1_id(f) == _to_int_or_none(f.feed1_item_id)

feed2_id(f) == _to_int_or_none(f.feed2_item_id)

feed1_qty(f) == _to_float_or_none(f.feed1_qty_per_tray_kg)

feed2_qty(f) == _to_float_or_none(f.feed2_qty_per_tray_kg)

frass_f(f) == _to_float_or_none(f.frass_kg)

valid_feed(item_id, qty) == IF item_id = NoNum THEN TRUE ELSE qty # NoNum /\ Val(qty) > 0

ids_to_check(f) == {Val(x) : x \in {feed1_id(f), feed2_id(f)} \ {NoNum}}

frass_item(f) ==
    IF frass_f(f) # NoNum /\ Val(frass_f(f)) > 0 THEN FirstFrassItem ELSE NoNum

\* the checks before the stock pre-check
ProFormError(f) ==
    IF f.pallet_ids = {} THEN "No has seleccionado pallets"
    ELSE IF f.task_name = "" THEN "Falta el nombre de la tarea"
    ELSE IF ~ValidDay(f.day) THEN "Fecha inválida"
    ELSE IF FoundPallets(f.pallet_ids) = <<>> THEN "Pallets no encontrados"
    ELSE IF ~valid_feed(feed1_id(f), feed1_qty(f)) THEN "Alimento 1: falta kg/bandeja o es 0"
    ELSE IF ~valid_feed(feed2_id(f), feed2_qty(f)) THEN "Alimento 2: falta kg/bandeja o es 0"
    ELSE IF \E iid \in ids_to_check(f) :
               iid \notin ItemIds \/ ItemCategory[iid] # "feed"
    THEN "Uno de los alimentos no es válido"
    ELSE IF frass_f(f) # NoNum /\ Val(frass_f(f)) > 0 /\ FirstFrassItem = NoNum
    THEN "No existe el item Frass"
    ELSE None

\* total_out[iid] after the loop over the pallets
RECURSIVE total_out_slots_not_added(_, _, _)
total_out_slots_not_added(f, pallets, iid) ==
    IF pallets = <<>> THEN 0
    ELSE LET trays == PalletTrayCount[Head(pallets)]
             a1 == IF Truthy(feed1_id(f)) /\ Truthy(feed1_qty(f)) /\ Val(feed1_id(f)) = iid
                   THEN Val(feed1_qty(f)) * trays ELSE 0
             a2 == IF Truthy(feed2_id(f)) /\ Truthy(feed2_qty(f)) /\ Val(feed2_id(f)) = iid
                   THEN Val(feed2_qty(f)) * trays ELSE 0
         IN  (IF a2 # 0 THEN a2 ELSE a1) + total_out_slots_not_added(f, Tail(pallets), iid)

RECURSIVE total_out(_, _, _)
total_out(f, pallets, iid) ==
    IF pallets = <<>> THEN 0
    ELSE LET trays == PalletTrayCount[Head(pallets)]
             a1 == IF Truthy(feed1_id(f)) /\ Truthy(feed1_qty(f)) /\ Val(feed1_id(f)) = iid
                   THEN Val(feed1_qty(f)) * trays ELSE 0
             a2 == IF Truthy(feed2_id(f)) /\ Truthy(feed2_qty(f)) /\ Val(feed2_id(f)) = iid
                   THEN Val(feed2_qty(f)) * trays ELSE 0
         IN  a1 + a2 + total_out(f, Tail(pallets), iid)

total_out_keys(f) ==
    {Val(x) : x \in {y \in {feed1_id(f)} : Truthy(y) /\ Truthy(feed1_qty(f))}}
        \cup {Val(x) : x \in {y \in {feed2_id(f)} : Truthy(y) /\ Truthy(feed2_qty(f))}}

\* comprobar stock antes (para no dejar a medias)
ProStockError(S, f) ==
    IF \E iid \in total_out_keys(f) :
          get_stock_qty(S, iid) < total_out(f, FoundPallets(f.pallet_ids), iid)
    THEN "Stock insuficiente"
    ELSE None

\* the rows of one pallet, in the order the loop body flushes them
ProOps(p, f) ==
    LET trays == PalletTrayCount[p]
    IN  << Op("task", feed1_id(f), feed2_id(f)) >>
        \o (IF Truthy(feed1_id(f)) /\ Truthy(feed1_qty(f))
            THEN << Op("feed_ev", Val(feed1_id(f)), Val(feed1_qty(f)) * trays),
                    Op("feed_mv", Val(feed1_id(f)), Val(feed1_qty(f)) * trays) >>
            ELSE <<>>)
        \o (IF Truthy(feed2_id(f)) /\ Truthy(feed2_qty(f))
            THEN << Op("feed_ev", Val(feed2_id(f)), Val(feed2_qty(f)) * trays),
                    Op("feed_mv", Val(feed2_id(f)), Val(feed2_qty(f)) * trays) >>
            ELSE <<>>)
        \o (IF frass_item(f) # NoNum /\ Truthy(frass_f(f)) /\ Val(frass_f(f)) > 0
            THEN << Op("sieve_ev", Val(frass_item(f)), Val(frass_f(f))),
                    Op("sieve_mv", Val(frass_item(f)), Val(frass_f(f))) >>
            ELSE <<>>)

\* the handler up to `with smart_begin(db):`
ui_production_record(f) ==
    /\ Arrive(f)
    /\ LET S1 == IF ProFormError(f) \in {"No has seleccionado pallets",
                                        "Falta el nombre de la tarea", "Fecha inválida"}
                 THEN Cur ELSE Query(Cur)
           err == IF ProFormError(f) # None THEN ProFormError(f) ELSE ProStockError(S1, f)
           S2 == SmartEnter(S1)
       IN  IF err # None
           THEN /\ Finish(S1, Resp(303, err))
                /\ exc' = None
                /\ UNCHANGED <<blk, entry, created>>
           ELSE IF S2.err # None
           THEN /\ Finish(Rollback(S2), Resp(303, "PRO falló"))
                /\ exc' = S2.err
                /\ UNCHANGED <<blk, entry, created>>
           ELSE /\ Put(S2)
                /\ blk' = SmartKind(S1)
                /\ entry' = [inTx |-> in_transaction(S1), view |-> View(S1),
                             pend |-> S1.pend]
                /\ created' = 0
                /\ pc' = "pro_block"
                /\ resp' = NoResp
                /\ exc' = None
    /\ UNCHANGED last

\* one iteration of `for p in pallets:`
ProPallet ==
    /\ pc = "pro_block"
    /\ created < Len(FoundPallets(req.pallet_ids))
    /\ LET p == FoundPallets(req.pallet_ids)[created + 1]
       IN  Put(FlushOps(Cur, ProOps(p, req), p, req))
    /\ created' = created + 1
    /\ UNCHANGED <<blk, entry, exc, last, pc, req, resp, pre, nreq>>

\* the (n+1)-th flush of the iteration raises: the block is left by the
\* exception, the handler calls db.rollback() and answers 'PRO falló'
ProRaise(n) ==
    /\ pc = "pro_block"
    /\ created < Len(FoundPallets(req.pallet_ids))
    /\ LET p == FoundPallets(req.pallet_ids)[created + 1]
           ops == ProOps(p, req)
           S == FlushOps(Cur, SubSeq(ops, 1, n), p, req)
       IN  /\ n < Len(ops)
           /\ Finish(Rollback(SmartExitRaise(S, blk)), Resp(303, "PRO falló"))
           /\ last' = [op |-> "raise", kind |-> blk, prev |-> Brief(last),
                       lost |-> Len(S.pend) - Len(entry.pend)]
    /\ exc' = "DBError"
    /\ blk' = "none"
    /\ UNCHANGED <<entry, created, req, pre, nreq>>

\* the loop is over: the block is left normally and the handler answers ok
ProExit ==
    /\ pc = "pro_block"
    /\ created = Len(FoundPallets(req.pallet_ids))
    /\ Finish(SmartExit(Cur, blk), Resp(303, "ok"))
    /\ exc' = None
    /\ blk' = "none"
    /\ UNCHANGED <<entry, created, last, req, pre, nreq>>

--------------------------------------------------------------------------
(* GET /ui/alerts: the STOCK section of the page (the SALA and PALET       *)
(* sections read rooms, readings and task dates and list alerts of other   *)
(* scopes).                                                                *)

STOCK_RED_KG == 0

STOCK_YELLOW_KG == 1

\* getattr(it, "min_threshold", None) or 0.0
ThresholdOrZero(v) == IF v = NoNum \/ Val(v) = 0 THEN 0 ELSE Val(v)

_badge(level) ==
    CASE level \in {"RED", "ROJO"} -> "RED"
      [] level \in {"YELLOW", "AMARILLO"} -> "YELLOW"
      [] level \in {"GREEN", "VERDE"} -> "GREEN"
      [] OTHER -> "GRAY"

_order(level) ==
    CASE _badge(level) = "RED" -> 0
      [] _badge(level) = "YELLOW" -> 1
      [] _badge(level) = "GREEN" -> 2
      [] OTHER -> 9

StockLevel(it, qty) ==
    LET min_th == ThresholdOrZero(ItemMinThreshold[it])
        crit_th == ThresholdOrZero(ItemCriticalThreshold[it])
    IN  IF crit_th > 0 /\ qty <= crit_th THEN "RED"
        ELSE IF min_th > 0 /\ qty <= min_th THEN "YELLOW"
        ELSE IF qty < 0 THEN "RED"
        ELSE IF qty <= STOCK_RED_KG THEN "YELLOW"
        ELSE IF qty <= STOCK_YELLOW_KG THEN "YELLOW"
        ELSE "GREEN"

NameRank(it) == CHOOSE k \in 1..Len(ItemsByName) : ItemsByName[k] = it

\* the alerts of scope STOCK, sorted by (_order(level), scope, code)
StockAlerts(S) ==
    LET level(it) == StockLevel(it, get_stock_qty(S, it))
        listed == SelectSeq(ItemsByName, LAMBDA it : level(it) # "GREEN")
        alerts == [k \in 1..Len(listed) |->
                     [level |-> _badge(level(listed[k])), scope |-> "STOCK",
                      code |-> listed[k]]]
    IN  SortSeq(alerts, LAMBDA a, b :
                   \/ _order(a.level) < _order(b.level)
                   \/ /\ _order(a.level) = _order(b.level)
                      /\ NameRank(a.code) < NameRank(b.code))

ui_alerts ==
    /\ Arrive([op |-> "ui_alerts"])
    /\ Finish(Query(Cur),
              [code |-> 200, msg |-> "alerts.html", alerts |-> StockAlerts(Cur)])
    /\ exc' = None
    /\ NoBlock

--------------------------------------------------------------------------
(* import_from_csv: run_all over one CSV file.  A CSV is a sequence of     *)
(* rows, a row a record of the cells the importer reads.                   *)

ItemName == (1 :> "Frass") @@ (2 :> "Salvado") @@ (3 :> "Zanahoria") @@ (4 :> "Frass fino")

SeededRooms == <<"Sala 1", "Sala 2", "Sala 3", "Sala 4">>

\* the BatchMonth of date.today(), which the seed has created
ThisMonth == "today"

\* s.strip() of the cells used here
Strip(s) ==
    CASE s = " Salvado " -> "Salvado"
      [] s = "PAL-9 " -> "PAL-9"
      [] s = " pal-9" -> "pal-9"
      [] s = " " -> ""
      [] OTHER -> s

\* s.upper() of the cells used here
Upper(s) == IF s = "pal-9" THEN "PAL-9" ELSE s

\* s.lower() of the cells used here
Lower(s) == IF s = "Cleaning" THEN "cleaning" ELSE s

\* float(s) of the cells used here; None when float() raises
CsvNum(s) ==
    CASE s = "0" -> Some(0)
      [] s = "3" -> Some(3)
      [] s = "50" -> Some(50)
      [] s = "60" -> Some(60)
      [] OTHER -> NoNum

_to_float(s) == IF Strip(s) = "" THEN NoNum ELSE CsvNum(Strip(s))

_to_int(s) == IF Strip(s) = "" THEN NoNum ELSE CsvNum(Strip(s))

\* datetime.strptime over the accepted formats; <<>> is None
_parse_dt(s) == IF Strip(s) = "2024-05-01" THEN <<"2024-05-01">> ELSE <<>>

\* first row of table t in what a query sees that satisfies P; <<>> when none
First(S, t, P(_)) ==
    LET rows == SelectSeq(View(S), LAMBDA r : r.t = t /\ P(r))
    IN  IF rows = <<>> THEN <<>> ELSE <<Head(rows)>>

_get_or_create_room(S, name) ==
    LET n == IF Strip(name) = "" THEN "SIN_SALA" ELSE Strip(name)
        Q == Query(S)
        room == First(Q, "room", LAMBDA r : r.name = n)
    IN  IF \E k \in 1..Len(SeededRooms) : SeededRooms[k] = n
        THEN [S |-> Q, id |-> CHOOSE k \in 1..Len(SeededRooms) : SeededRooms[k] = n]
        ELSE IF room # <<>> THEN [S |-> Q, id |-> room[1].id]
        ELSE LET F == Flush(Q, [t |-> "room", id |-> 0, name |-> n])
             IN  [S |-> F, id |-> LastId(F, "room")]

_get_or_create_item(S, name, category) ==
    LET n == IF Strip(name) = "" THEN "UNKNOWN" ELSE Strip(name)
        Q == Query(S)
        item == First(Q, "item", LAMBDA r : r.name = n)
    IN  IF \E i \in ItemIds : ItemName[i] = n
        THEN [S |-> Q, id |-> CHOOSE i \in ItemIds : ItemName[i] = n]
        ELSE IF item # <<>> THEN [S |-> Q, id |-> item[1].id]
        ELSE LET F == Flush(Q, [t |-> "item", id |-> 0, name |-> n,
                                category |-> category])
             IN  [S |-> F, id |-> LastId(F, "item")]

\* crud.get_or_create_batch_month(db, day), by the month code of day
get_or_create_batch_month(S, code) ==
    LET Q == Query(S)
        existing == First(Q, "bm", LAMBDA r : r.code = code)
    IN  IF code = ThisMonth THEN [S |-> Q, id |-> 1]
        ELSE IF existing # <<>> THEN [S |-> Q, id |-> existing[1].id]
        ELSE LET F == Refresh(Commit(Add(Q, [t |-> "bm", id |-> 0, code |-> code])))
             IN  [S |-> F, id |-> LastId(F, "bm")]

(* import_inventario_as_snapshot *)

InventarioRow(R, row) ==
    LET name == Strip(row.producto)
        stock_actual == _to_float(row.stock_actual)
        G == _get_or_create_item(R.S, name, "feed")
        S1 == Query(G.S)
        exists == First(S1, "move", LAMBDA r : /\ r.ref_type = "import_snapshot"
                                               /\ r.ref_id = str(G.id))
        current == get_stock_qty(S1, G.id)
        delta == Val(stock_actual) - current
    IN  IF name = "" \/ stock_actual = NoNum THEN R
        ELSE IF exists # <<>> THEN [R EXCEPT !.S = S1]
        ELSE IF delta = 0 THEN [R EXCEPT !.S = S1]
        ELSE [S |-> Add(S1, StockMove(G.id, "adjust", delta, "import_snapshot",
                                      str(G.id))),
              created |-> R.created + 1]

RECURSIVE import_inventario_as_snapshot(_, _)
import_inventario_as_snapshot(R, csv) ==
    IF csv = <<>> THEN R
    ELSE import_inventario_as_snapshot(InventarioRow(R, Head(csv)), Tail(csv))

\* run_all(inventario=csv): with SessionLocal() as db: ...; db.commit()
run_all_inventario(csv) ==
    /\ Arrive([op |-> "import_inventario_as_snapshot", csv |-> csv])
    /\ LET R == import_inventario_as_snapshot([S |-> Cur, created |-> 0], csv)
       IN  Finish(Commit(R.S), [code |-> 0, msg |-> "ok", created |-> R.created])
    /\ exc' = None
    /\ last' = [op |-> "run_all", prev |-> req]
    /\ UNCHANGED <<blk, entry, created>>

(* import_maestro_pallets *)

\* Pallet.id is a fresh uuid4 string: the model numbers the pallets instead.
\* created_at defaults to datetime.utcnow(), written "now".
Pallet(code, room_id, batch_month_id, tray_count, status) ==
    [t |-> "pallet", id |-> 0, code |-> code, room_id |-> room_id,
     batch_month_id |-> batch_month_id, tray_count |-> tray_count,
     status |-> status, created_at |-> <<"now">>, origin_lot |-> "",
     parent_lot |-> "", kg_per_tray |-> NoNum, extraction_count |-> 0,
     logistic_status |-> "", notes |-> ""]

\* an attribute assignment on a loaded object: the UPDATE is emitted by the
\* next flush, here the commit that ends run_all
SetFields(S, id, F(_)) ==
    LET upd(rows) == [k \in 1..Len(rows) |->
                        IF rows[k].t = "pallet" /\ rows[k].id = id
                        THEN F(rows[k]) ELSE rows[k]]
    IN  [S EXCEPT !.pend = upd(@), !.com = upd(@)]

FindPalletCommitted(S, code) ==
    LET rows == SelectSeq(S.com, LAMBDA r : r.t = "pallet" /\ r.code = code)
    IN  IF rows = <<>> THEN <<>> ELSE <<Head(rows)>>

\* db.query(models.Pallet).filter(models.Pallet.code == code).first()
FindPallet(S, code) == First(S, "pallet", LAMBDA r : r.code = code)

MaestroRow(R, row) ==
    LET code == Upper(Strip(row.id_palet))
        G == _get_or_create_room(R.S, row.aula)
        created_at == _parse_dt(row.fecha)
        status == Lower(Strip(IF row.estado = "" THEN "active" ELSE row.estado))
        origin_lot == Strip(row.lote_origen)
        tray_count == IF _to_int(row.bandejas) \in {NoNum, Some(0)}
                      THEN 26 ELSE Val(_to_int(row.bandejas))
        kg_per_tray == _to_float(row.kg_bandeja)
        S1 == Query(G.S)
        p == FindPallet(S1, code)
        B == get_or_create_batch_month(S1,
                 IF created_at # <<>> THEN "2024-05" ELSE ThisMonth)
        N == Flush(B.S, [Pallet(code, G.id, B.id, tray_count,
                                IF status # "" THEN status ELSE "active")
                           EXCEPT !.created_at =
                                     IF created_at # <<>> THEN created_at ELSE @])
        S2 == IF p = <<>> THEN N ELSE S1
        id == IF p = <<>> THEN LastId(N, "pallet") ELSE p[1].id
        set(r) == [r EXCEPT !.room_id = G.id,
                            !.created_at = IF created_at # <<>> THEN created_at ELSE @,
                            !.status = IF status # "" THEN status ELSE @,
                            !.origin_lot = origin_lot,
                            !.parent_lot = "",
                            !.tray_count = tray_count,
                            !.kg_per_tray = kg_per_tray,
                            !.extraction_count = 0,
                            !.logistic_status = ""]
    IN  IF code = "" THEN R
        ELSE [S |-> SetFields(S2, id, set),
              created |-> R.created + (IF p = <<>> THEN 1 ELSE 0)]

RECURSIVE import_maestro_pallets(_, _)
import_maestro_pallets(R, csv) ==
    IF csv = <<>> THEN R
    ELSE import_maestro_pallets(MaestroRow(R, Head(csv)), Tail(csv))

\* run_all(maestro_pallets=csv): with SessionLocal() as db: ...; db.commit()
run_all_maestro(csv) ==
    /\ Arrive([op |-> "import_maestro_pallets", csv |-> csv])
    /\ LET R == import_maestro_pallets([S |-> Cur, created |-> 0], csv)
       IN  Finish(Commit(R.S), [code |-> 0, msg |-> "ok", created |-> R.created])
    /\ exc' = None
    /\ last' = [op |-> "run_all", prev |-> req]
    /\ UNCHANGED <<blk, entry, created>>

(* The import runs *)

InventarioRows ==
    { [producto |-> n, stock_actual |-> q] :
         n \in {"Salvado", " Salvado ", "Avena", " "}, q \in {"60", "50", "x", ""} }

InventarioCsvs ==
    { <<r>> : r \in InventarioRows }
    \cup { <<[producto |-> a, stock_actual |-> "60"], [producto |-> b, stock_actual |-> q]>> :
              a \in {"Salvado", "Avena"}, b \in {" Salvado ", "Avena", "Zanahoria"},
              q \in {"60", "3"} }

MaestroRowOf(id_palet, aula, fecha, estado, bandejas) ==
    [id_palet |-> id_palet, aula |-> aula, fecha |-> fecha, estado |-> estado,
     bandejas |-> bandejas, kg_bandeja |-> "3", lote_origen |-> "L1"]

MaestroRows ==
    { MaestroRowOf("PAL-9 ", "Sala 1", "2024-05-01", "Cleaning", "3"),
      MaestroRowOf(" pal-9", "Sala 9", "", "", "0"),
      MaestroRowOf("pal-9", "", "x", " ", ""),
      MaestroRowOf("PAL-8", "Sala 9", "2024-05-01", "", "3"),
      MaestroRowOf(" ", "Sala 9", "", "", "3") }

MaestroCsvs ==
    { <<r>> : r \in MaestroRows } \cup { <<a, b>> : a \in MaestroRows, b \in MaestroRows }

NextImport ==
    \/ \E csv \in InventarioCsvs : run_all_inventario(csv)
    \/ \E csv \in MaestroCsvs : run_all_maestro(csv)
    \/ \E mt \in {"in", "out"} : create_stock_move(2, mt, 49, FALSE)

SpecImport == Init /\ [][NextImport]_vars

--------------------------------------------------------------------------
(* services/alerts_engine.py: generate_alerts(db).  R is a record [S, err]: *)
(* the session and the exception raised so far (None: none).               *)

\* the classes models.py defines: models.<name> of any other name raises
\* AttributeError
ModelsClasses ==
    {"Room", "BatchMonth", "Pallet", "PalletMove", "EnvReading", "Item", "StockMove",
     "FeedEvent", "SieveEvent", "TaskTemplate", "TaskInstance", "FarmConfig"}

HasAttr(name) == name \in ModelsClasses

\* Room.target_temp_min / _max, target_rh_min / _max of the seeded rooms
RoomTargets == [temp_min |-> 25, temp_max |-> 28, rh_min |-> 50, rh_max |-> 70]

Alert(code) ==
    [t |-> "alert", id |-> 0, code |-> code, severity |-> "", item_id |-> NoNum,
     room_id |-> NoNum, is_resolved |-> FALSE]

SetAlert(S, code, F(_)) ==
    LET upd(rows) == [k \in 1..Len(rows) |->
                        IF rows[k].t = "alert" /\ rows[k].code = code
                        THEN F(rows[k]) ELSE rows[k]]
    IN  [S EXCEPT !.pend = upd(@), !.com = upd(@), !.new = upd(@)]

_upsert_alert(R, code, severity, item_id, room_id) ==
    LET Q == Query(R.S)
        a == First(Q, "alert", LAMBDA r : r.code = code)
        A == IF a = <<>> THEN Add(Q, Alert(code)) ELSE Q
        set(r) == [r EXCEPT !.severity = severity, !.item_id = item_id,
                            !.room_id = room_id, !.is_resolved = FALSE]
    IN  IF R.err # None THEN R
        ELSE IF ~HasAttr("Alert") THEN [R EXCEPT !.err = "AttributeError"]
        ELSE [R EXCEPT !.S = SetAlert(A, code, set)]

\* a = query(Alert).filter(code == code, is_resolved == False).first();
\* if a: a.is_resolved = True
ResolveAlert(R, code) ==
    LET Q == Query(R.S)
        a == First(Q, "alert", LAMBDA r : r.code = code /\ ~r.is_resolved)
    IN  IF R.err # None THEN R
        ELSE IF ~HasAttr("Alert") THEN [R EXCEPT !.err = "AttributeError"]
        ELSE IF a = <<>> THEN [R EXCEPT !.S = Q]
        ELSE [R EXCEPT !.S = SetAlert(Q, code, LAMBDA r : [r EXCEPT !.is_resolved = TRUE])]

StockAlertStep(R, it) ==
    LET qty == get_stock_qty(R.S, it)
        min_th == ThresholdOrZero(ItemMinThreshold[it])
        crit_th == ThresholdOrZero(ItemCriticalThreshold[it])
        Q == [R EXCEPT !.S = Query(@)]
    IN  IF R.err # None THEN R
        ELSE IF min_th <= 0 /\ crit_th <= 0 THEN Q
        ELSE IF crit_th > 0 /\ qty <= crit_th
        THEN _upsert_alert(Q, <<"STOCK_CRIT", it>>, "critical", Some(it), NoNum)
        ELSE IF min_th > 0 /\ qty <= min_th
        THEN _upsert_alert(Q, <<"STOCK_LOW", it>>, "warn", Some(it), NoNum)
        ELSE ResolveAlert(ResolveAlert(Q, <<"STOCK_CRIT", it>>), <<"STOCK_LOW", it>>)

EnvCheck(R, holds, code, room) ==
    IF holds THEN _upsert_alert(R, code, "warn", NoNum, Some(room))
    ELSE ResolveAlert(R, code)

\* one room: its latest reading against the room's targets
EnvAlertStep(R, room) ==
    LET Q == Query(R.S)
        readings == SelectSeq(View(Q), LAMBDA r : r.t = "env" /\ r.room_id = room)
        reading == readings[Len(readings)]
        T == RoomTargets
        R1 == EnvCheck([R EXCEPT !.S = Q], reading.temp_c < T.temp_min,
                       <<"ENV_TEMP_LOW", room>>, room)
        R2 == EnvCheck(R1, reading.temp_c > T.temp_max, <<"ENV_TEMP_HIGH", room>>, room)
        R3 == EnvCheck(R2, reading.rh_pct < T.rh_min, <<"ENV_RH_LOW", room>>, room)
    IN  IF R.err # None THEN R
        ELSE IF ~HasAttr("EnvironmentReading") THEN [R EXCEPT !.err = "AttributeError"]
        ELSE IF readings = <<>> THEN [R EXCEPT !.S = Q]
        ELSE EnvCheck(R3, reading.rh_pct > T.rh_max, <<"ENV_RH_HIGH", room>>, room)

RECURSIVE StockAlertSteps(_, _)
StockAlertSteps(R, items) ==
    IF items = <<>> THEN R
    ELSE StockAlertSteps(StockAlertStep(R, Head(items)), Tail(items))

RECURSIVE EnvAlertSteps(_, _)
EnvAlertSteps(R, rooms) ==
    IF rooms = <<>> THEN R
    ELSE EnvAlertSteps(EnvAlertStep(R, Head(rooms)), Tail(rooms))

generate_alerts ==
    /\ Arrive([op |-> "generate_alerts"])
    /\ LET items == [k \in 1..Cardinality(ItemIds) |-> k]
           rooms == [k \in 1..Len(SeededRooms) |-> k]
           R == EnvAlertSteps(StockAlertSteps([S |-> Query(Cur), err |-> None], items),
                              rooms)
       IN  IF R.err # None
           THEN Finish(R.S, Resp(500, R.err)) /\ exc' = R.err
           ELSE Finish(Commit(R.S), Resp(200, "ok")) /\ exc' = None
    /\ NoBlock

--------------------------------------------------------------------------
(* Requests *)

StockMoveQtys == {-51, -1, 49, 51}

FeedRequests ==
    { <<"p1", 2, 1>>, <<"p1", 2, 51>>, <<"zz", 2, 1>>, <<"p1", 9, 1>>, <<"p1", 1, 1>> }

SieveRequests ==
    { <<"p1", 1, 1>>, <<"p1", 4, 1>>, <<"zz", 1, 1>>, <<"p1", 9, 1>>, <<"p1", 2, 1>> }

BatchForm(action, pallet_ids, item, mode, per_tray, total, frass) ==
    [op |-> "ui_rooms_batch_action", action |-> action, pallet_ids |-> pallet_ids,
     feed_item_id |-> item, feed_mode |-> mode, feed_qty_per_tray_kg |-> per_tray,
     feed_qty_total_kg |-> total, sieve_frass_kg |-> frass]

BatchForms ==
    { BatchForm("feed", ps, Some(2), "per_tray", q, NoNum, NoNum) :
         ps \in {{"p1", "p2"}, {"p1"}}, q \in {Some(1), Some(30)} }
    \cup { BatchForm("feed", {"p1", "p2"}, Some(2), "total", NoNum, q, NoNum) :
              q \in {Some(1), NoNum} }
    \cup { BatchForm("feed", ps, i, "per_tray", NoNum, NoNum, NoNum) :
              ps \in {{}, {"zz"}, {"p2"}, {"p1"}}, i \in {NoNum, Some(1), Some(2)} }
    \cup { BatchForm("sieve", ps, NoNum, "per_tray", NoNum, NoNum, q) :
              ps \in {{"p1", "p2"}, {"zz"}}, q \in {Some(1), NoNum} }

ProForm(pallet_ids, task_name, day, slot1, slot2, frass) ==
    [op |-> "ui_production_record", pallet_ids |-> pallet_ids, task_name |-> task_name,
     day |-> day, feed1_item_id |-> slot1[1], feed1_qty_per_tray_kg |-> slot1[2],
     feed2_item_id |-> slot2[1], feed2_qty_per_tray_kg |-> slot2[2], frass_kg |-> frass]

ProForms ==
    { ProForm(ps, "Alimentar", "2024-05-01", s1, s2, fr) :
         ps \in {{"p1"}, {"p1", "p2"}, {"p2", "zz"}},
         s1 \in {<<"", "">>, <<"2", "1">>, <<"2", "30">>},
         s2 \in {<<"", "">>, <<"2", "30">>, <<"3", "1">>},
         fr \in {"", "1"} }
    \cup { ProForm(ps, "Alimentar", "2024-05-01", <<"2", "1">>, <<"", "">>, "") :
              ps \in {{}, {"zz"}} }
    \cup { ProForm({"p1"}, tn, "2024-05-01", <<"2", "1">>, <<"", "">>, "") : tn \in {""} }
    \cup { ProForm({"p1"}, "Alimentar", d, <<"2", "1">>, <<"", "">>, "") : d \in {"x"} }
    \cup { ProForm({"p1"}, "Alimentar", "2024-05-01", s1, <<"", "">>, "0") :
              s1 \in {<<"2", "">>, <<"2", "0">>, <<"1", "1">>, <<"0", "1">>, <<"x", "1">>} }
    \cup { ProForm({"p1"}, "Alimentar", "2024-05-01", <<"", "1">>, s2, "") :
              s2 \in {<<"3", "">>, <<"1", "1">>} }

Next ==
    \/ \E mt \in MoveTypes, q \in StockMoveQtys, fail \in BOOLEAN :
          create_stock_move(2, mt, q, fail)
    \/ \E r \in FeedRequests : create_feed(r[1], r[2], r[3])
    \/ \E r \in SieveRequests, fail \in BOOLEAN : create_sieve(r[1], r[2], r[3], fail)
    \/ \E fail \in BOOLEAN : create_sieve_move(fail)
    \/ \E f \in BatchForms, failAt \in 0..3 : ui_rooms_batch_action(f, failAt)
    \/ \E f \in ProForms : ui_production_record(f)
    \/ ProPallet
    \/ \E n \in 0..6 : ProRaise(n)
    \/ ProExit
    \/ ui_alerts
    \/ generate_alerts

Spec == Init /\ [][Next]_vars

--------------------------------------------------------------------------
(* Concurrent requests.  The handlers are plain `def` functions, which the  *)
(* framework runs in worker threads, each request with its own Session     *)
(* (get_db).  Here db, pc, req, resp and exc hold one value per worker.    *)
(* A handler reads the stock with SELECTs, which take no lock that outlives *)
(* the statement, and writes afterwards: SQLite lets one connection write  *)
(* at a time, so the writes of a handler up to its commit are one step.    *)

Procs == {1, 2}

InitConc ==
    /\ store = SeedRows
    /\ db = [p \in Procs |-> [f \in SessFields |-> NewSession[f]]]
    /\ blk = "none"
    /\ entry = NoEntry
    /\ exc = [p \in Procs |-> None]
    /\ last = [op |-> "init"]
    /\ pc = [p \in Procs |-> "idle"]
    /\ req = [p \in Procs |-> [op |-> None]]
    /\ resp = [p \in Procs |-> NoResp]
    /\ pre = SeedRows
    /\ created = 0
    /\ nreq = 0

\* the Session of worker p over the database file
Sess(p) == [f \in SessFields \cup {"com"} |-> IF f = "com" THEN store ELSE db[p][f]]

\* requests that take stock out of item 2
ConcRequests ==
    { [op |-> "create_stock_move", item_id |-> 2, move_type |-> "out", qty_kg |-> q] :
         q \in {30, 49} }
    \cup { [op |-> "create_feed", pallet_id |-> "p1", item_id |-> 2, qty_kg |-> 30] }
    \cup { f \in BatchForms : f.action = "feed" /\ f.feed_qty_per_tray_kg # NoNum }
    \cup { f \in ProForms : /\ f.pallet_ids = {"p1"}
                            /\ f.feed1_qty_per_tray_kg \in {"1", "30"}
                            /\ f.feed2_item_id = ""
                            /\ f.frass_kg = "" }

\* the answer of the handler's validations and of its stock check
\* (NoResp: the request goes on to write)
ConcError(S, r) ==
    CASE r.op = "create_stock_move" ->
            IF r.move_type = "out" /\ NotEnoughStock(get_stock_qty(S, r.item_id), r.qty_kg)
            THEN Resp(400, "Not enough stock") ELSE NoResp
      [] r.op = "create_feed" ->
            IF r.pallet_id \notin PalletIds THEN Resp(404, "Pallet not found")
            ELSE IF r.item_id \notin ItemIds THEN Resp(404, "Item not found")
            ELSE IF ItemCategory[r.item_id] # "feed"
            THEN Resp(400, "Only feed items can be used in feed events")
            ELSE IF get_stock_qty(S, r.item_id) < r.qty_kg
            THEN Resp(400, "Not enough feed stock") ELSE NoResp
      [] r.op = "ui_rooms_batch_action" ->
            IF BatchError(S, r) # None THEN Resp(303, BatchError(S, r)) ELSE NoResp
      [] r.op = "ui_production_record" ->
            IF ProFormError(r) # None THEN Resp(303, ProFormError(r))
            ELSE IF ProStockError(S, r) # None THEN Resp(303, ProStockError(S, r))
            ELSE NoResp

\* for p in pallets: the rows of every pallet, flushed in the block
RECURSIVE ProFlush(_, _, _)
ProFlush(S, pallets, f) ==
    IF pallets = <<>> THEN S
    ELSE ProFlush(FlushOps(S, ProOps(Head(pallets), f), Head(pallets), f),
                  Tail(pallets), f)

\* the session after the handler's writes
ConcWritten(S, r) ==
    LET pallets == FoundPallets(r.pallet_ids)
        S2 == SmartEnter(S)
    IN  CASE r.op = "create_stock_move" ->
                add_stock_move(S, StockMove(r.item_id, r.move_type, r.qty_kg,
                                            "manual", NoRef), TRUE)
          [] r.op = "create_feed" ->
                IF ConstructorAccepts(FeedEventCreateFields, FeedEventColumns)
                THEN LET E == Refresh(Commit(Flush(S, FeedEvent(r.pallet_id, r.item_id,
                                                                r.qty_kg))))
                     IN  add_stock_move(E, StockMove(r.item_id, "out", r.qty_kg, "feed",
                                                     str(LastId(E, "feed"))), TRUE)
                ELSE [S EXCEPT !.err = "TypeError"]
          [] r.op = "ui_rooms_batch_action" ->
                IF S2.err # None THEN S2
                ELSE SmartExit(BatchFlush(S2, pallets, r, BatchLen(pallets, r)),
                               SmartKind(S))
          [] r.op = "ui_production_record" ->
                IF S2.err # None THEN S2
                ELSE SmartExit(ProFlush(S2, pallets, r), SmartKind(S))

\* worker p receives request r and runs the handler up to its stock check
ConcCheck(p, r) ==
    /\ pc[p] \in {"idle", "done"}
    /\ nreq < MaxRequests
    /\ nreq' = nreq + 1
    /\ req' = [req EXCEPT ![p] = r]
    /\ LET S == Query(Sess(p))
           err == ConcError(S, r)
           E == IF err = NoResp THEN S ELSE Close(S)
       IN  /\ db' = [db EXCEPT ![p] = [f \in SessFields |-> E[f]]]
           /\ resp' = [resp EXCEPT ![p] = err]
           /\ pc' = [pc EXCEPT ![p] = IF err = NoResp THEN "checked" ELSE "done"]
           /\ exc' = [exc EXCEPT ![p] = IF err = NoResp \/ err.code = 303 THEN None
                                        ELSE "HTTPException"]
    /\ UNCHANGED <<store, blk, entry, last, pre, created>>

\* worker p, past the check, writes its rows and commits
ConcWrite(p) ==
    /\ pc[p] = "checked"
    /\ LET r == req[p]
           W == ConcWritten(Sess(p), r)
           E == Close(W)
       IN  /\ db' = [db EXCEPT ![p] = [f \in SessFields |-> E[f]]]
           /\ store' = E.com
           /\ exc' = [exc EXCEPT ![p] = W.err]
           /\ resp' = [resp EXCEPT ![p] =
                          IF W.err # None
                          THEN Resp(IF r.op = "create_feed" THEN 500 ELSE 303, W.err)
                          ELSE Resp(IF r.op \in {"create_stock_move", "create_feed"}
                                    THEN 200 ELSE 303, "ok")]
    /\ pc' = [pc EXCEPT ![p] = "done"]
    /\ UNCHANGED <<blk, entry, last, req, pre, created, nreq>>

NextConc ==
    \/ \E p \in Procs, r \in ConcRequests : ConcCheck(p, r)
    \/ \E p \in Procs : ConcWrite(p)

SpecConc == InitConc /\ [][NextConc]_vars

--------------------------------------------------------------------------
(* Properties of the request handlers *)

IsPro == req.op = "ui_production_record"

\* the rows committed since the request arrived
NewRows == SubSeq(store, Len(pre) + 1, Len(store))

Idx(rows) == 1..Len(rows)

\* a session that sees exactly the committed rows `rows`
Ledger(rows) == [NewSession EXCEPT !.pend = rows] @@ [com |-> <<>>]

StockIn(rows, i) == get_stock_qty(Ledger(rows), i)

RECURSIVE SetSum(_)
SetSum(g) ==
    IF DOMAIN g = {} THEN 0
    ELSE LET x == CHOOSE y \in DOMAIN g : TRUE
         IN  g[x] + SetSum([z \in DOMAIN g \ {x} |-> g[z]])

(* C1: /ui/production/record is all-or-nothing: nothing is committed while *)
(* the block runs, and when a write inside the block raises, no row of the *)
(* batch exists afterwards and the answer is the 'PRO falló' redirect.     *)
C1_ProductionAllOrNothing ==
    /\ pc = "pro_block" => store = pre
    /\ (pc = "done" /\ IsPro /\ exc # None) =>
          /\ store = pre
          /\ db.pend = <<>>
          /\ resp.msg = "PRO falló"

\* a write failed after a whole pallet and more had been written in the block
C1_Witness ==
    /\ pc = "done"
    /\ IsPro
    /\ resp.msg = "PRO falló"
    /\ created >= 1
    /\ last.op = "raise"
    /\ last.lost >= 4

(* C2: when, for some feed item named by the batch, the kg the batch needs *)
(* (kg per tray x trays, over the found pallets and over both feed slots)  *)
(* exceeds the item's stock, the request is answered 'Stock insuficiente'  *)
(* and writes nothing.                                                     *)
C2SlotKg(f, slot, i) ==
    LET id == IF slot = 1 THEN feed1_id(f) ELSE feed2_id(f)
        kg == IF slot = 1 THEN feed1_qty(f) ELSE feed2_qty(f)
    IN  IF id # NoNum /\ kg # NoNum /\ Val(id) = i THEN Val(kg) ELSE 0

C2Needed(f, i) ==
    SetSum([p \in f.pallet_ids \cap PalletIds |->
               (C2SlotKg(f, 1, i) + C2SlotKg(f, 2, i)) * PalletTrayCount[p]])

\* the feed items the batch names in a slot that has an item and a quantity
C2Items(f) ==
    {i \in ItemIds : \E slot \in {1, 2} :
        LET id == IF slot = 1 THEN feed1_id(f) ELSE feed2_id(f)
            kg == IF slot = 1 THEN feed1_qty(f) ELSE feed2_qty(f)
        IN  id # NoNum /\ kg # NoNum /\ Val(id) = i}

C2_PreCheckRejects ==
    (/\ pc = "done"
     /\ IsPro
     /\ ProFormError(req) = None
     /\ \E i \in C2Items(req) : C2Needed(req, i) > StockIn(pre, i)) =>
        /\ resp.msg = "Stock insuficiente"
        /\ store = pre
        /\ exc = None

\* rejected although neither slot alone exceeds the stock of the item
C2_Witness ==
    /\ pc = "done"
    /\ IsPro
    /\ resp.msg = "Stock insuficiente"
    /\ store = pre
    /\ \E i \in ItemIds :
          /\ C2Needed(req, i) > StockIn(pre, i)
          /\ C2SlotKg(req, 1, i) > 0
          /\ C2SlotKg(req, 2, i) > 0
          /\ \A p \in req.pallet_ids \cap PalletIds :
                /\ C2SlotKg(req, 1, i) * PalletTrayCount[p] <= StockIn(pre, i)
                /\ C2SlotKg(req, 2, i) * PalletTrayCount[p] <= StockIn(pre, i)

(* C3: get_stock_qty(item) = sum of the item's 'in' moves - sum of its     *)
(* 'out' moves + sum of its moves of any other type; 0 without moves;      *)
(* moves of other items do not change it.                                  *)
C3Kind(m) == IF m.move_type \in {"in", "out"} THEN m.move_type ELSE "other"

C3Sum(rows, i, kind) ==
    SetSum([k \in {j \in Idx(rows) : /\ rows[j].t = "move"
                                     /\ rows[j].item_id = i
                                     /\ C3Kind(rows[j]) = kind} |-> rows[k].qty_kg])

C3_StockQtyIsSignedSum ==
    \A i \in ItemIds :
        LET rows == View(Cur)
            own == SelectSeq(rows, LAMBDA r : r.t = "move" /\ r.item_id = i)
        IN  /\ get_stock_qty(Cur, i)
                 = C3Sum(rows, i, "in") - C3Sum(rows, i, "out") + C3Sum(rows, i, "other")
            /\ own = <<>> => get_stock_qty(Cur, i) = 0
            /\ get_stock_qty(Cur, i) = StockIn(own, i)

\* an item with 'in', 'out' and negative 'adjust' moves, among moves of other items
C3_Witness ==
    \E i \in ItemIds :
        /\ \E k \in Idx(store) : store[k].t = "move" /\ store[k].item_id # i
        /\ \E k \in Idx(store) :
              store[k].t = "move" /\ store[k].item_id = i /\ store[k].move_type = "in"
        /\ \E k \in Idx(store) :
              store[k].t = "move" /\ store[k].item_id = i /\ store[k].move_type = "out"
        /\ \E k \in Idx(store) :
              /\ store[k].t = "move" /\ store[k].item_id = i
              /\ store[k].move_type = "adjust" /\ store[k].qty_kg < 0

(* C6: after any sequence of requests (failed ones included), in the       *)
(* committed state each FeedEvent has exactly one 'out' move with ref_type *)
(* 'feed', its id as ref_id, its item and its qty_total_kg, and each       *)
(* SieveEvent exactly one 'in' move with ref_type 'sieve', its id as       *)
(* ref_id and its frass_kg.                                                *)
C6Moves(rows, move_type, ref_type, id, qty) ==
    {j \in Idx(rows) : /\ rows[j].t = "move"
                       /\ rows[j].move_type = move_type
                       /\ rows[j].ref_type = ref_type
                       /\ rows[j].ref_id = str(id)
                       /\ rows[j].qty_kg = qty}

C6_EveryEventHasItsMove ==
    pc \in {"idle", "done"} =>
    \A k \in Idx(store) :
        /\ store[k].t = "feed" =>
              /\ Cardinality(C6Moves(store, "out", "feed", store[k].id,
                                     store[k].qty_total_kg)) = 1
              /\ \A j \in C6Moves(store, "out", "feed", store[k].id, store[k].qty_total_kg) :
                    store[j].item_id = store[k].item_id
        /\ store[k].t = "sieve" =>
              Cardinality(C6Moves(store, "in", "sieve", store[k].id, store[k].frass_kg)) = 1

(* C7: POST /events/feed with an existing pallet and feed item succeeds    *)
(* when qty_kg <= stock, storing one FeedEvent and one 'out' move of       *)
(* qty_kg, and answers 400 storing nothing when stock < qty_kg.            *)
C7_FeedSucceeds ==
    (/\ pc = "done"
     /\ req.op = "create_feed"
     /\ req.pallet_id \in PalletIds
     /\ req.item_id \in ItemIds
     /\ ItemCategory[req.item_id] = "feed") =>
        IF req.qty_kg <= StockIn(pre, req.item_id)
        THEN /\ resp.code = 200
             /\ Len(Table(NewRows, "feed")) = 1
             /\ Len(Table(NewRows, "move")) = 1
             /\ StockIn(store, req.item_id) = StockIn(pre, req.item_id) - req.qty_kg
        ELSE resp.code = 400 /\ store = pre

(* C8: POST /stock/moves 'out' answers 400 and inserts nothing whenever    *)
(* stock < qty_kg; when accepted the stock is the former stock minus       *)
(* qty_kg and is not negative.                                             *)
C8_StockOutGuard ==
    (/\ pc = "done"
     /\ req.op = "create_stock_move"
     /\ req.move_type = "out") =>
        /\ StockIn(pre, req.item_id) < req.qty_kg => (resp.code = 400 /\ store = pre)
        /\ resp.code = 200 =>
              /\ Len(store) = Len(pre) + 1
              /\ StockIn(store, req.item_id) = StockIn(pre, req.item_id) - req.qty_kg
              /\ StockIn(store, req.item_id) >= 0

\* an accepted 'out' that empties the stock
C8_Witness ==
    /\ pc = "done"
    /\ req.op = "create_stock_move"
    /\ req.move_type = "out"
    /\ resp.code = 200
    /\ req.qty_kg > 0
    /\ StockIn(store, req.item_id) = 0

(* C9: a successful /ui/production/record over N found pallets commits    *)
(* exactly N ProductionTask rows, one per pallet; for each pallet and each *)
(* feed slot with an item and a quantity one 'out' move of kg per tray x   *)
(* the pallet's trays; when frass_kg > 0 one 'in' move of frass_kg per     *)
(* pallet on the lowest-id 'frass' item; no other move, so the stock of    *)
(* every item changes by exactly these amounts.                            *)
C9Slots(f) ==
    {n \in {1, 2} : LET id == IF n = 1 THEN feed1_id(f) ELSE feed2_id(f)
                        kg == IF n = 1 THEN feed1_qty(f) ELSE feed2_qty(f)
                    IN  id # NoNum /\ kg # NoNum}

C9SlotItem(f, n) == Val(IF n = 1 THEN feed1_id(f) ELSE feed2_id(f))

C9SlotKg(f, n) == Val(IF n = 1 THEN feed1_qty(f) ELSE feed2_qty(f))

\* the new moves of the given kind that refer to a new event of pallet p
C9Moves(rows, p, ev, move_type, i, kg) ==
    {j \in Idx(rows) :
        /\ rows[j].t = "move"
        /\ rows[j].move_type = move_type
        /\ rows[j].item_id = i
        /\ rows[j].qty_kg = kg
        /\ rows[j].ref_type = ev
        /\ \E k \in Idx(rows) :
              /\ rows[k].t = ev
              /\ rows[k].pallet_id = p
              /\ rows[j].ref_id = str(rows[k].id)}

C9LowestFrass == CHOOSE i \in ItemIds :
                    /\ ItemCategory[i] = "frass"
                    /\ \A j \in ItemIds : j < i => ItemCategory[j] # "frass"

C9FrassKg(f) == IF frass_f(f) # NoNum /\ Val(frass_f(f)) > 0 THEN Val(frass_f(f)) ELSE 0

C9_ProductionWrites ==
    (pc = "done" /\ IsPro /\ resp.msg = "ok") =>
        LET found == req.pallet_ids \cap PalletIds
            N == Cardinality(found)
            new == NewRows
        IN  /\ SubSeq(store, 1, Len(pre)) = pre
            /\ Len(Table(new, "task")) = N
            /\ \A p \in found :
                  Cardinality({k \in Idx(new) : new[k].t = "task" /\ new[k].pallet_id = p}) = 1
            /\ \A p \in found : \A n \in C9Slots(req) :
                  Cardinality(C9Moves(new, p, "feed", "out", C9SlotItem(req, n),
                                      C9SlotKg(req, n) * PalletTrayCount[p]))
                     = Cardinality({m \in C9Slots(req) :
                                       /\ C9SlotItem(req, m) = C9SlotItem(req, n)
                                       /\ C9SlotKg(req, m) = C9SlotKg(req, n)})
            /\ C9FrassKg(req) > 0 =>
                  \A p \in found :
                     Cardinality(C9Moves(new, p, "sieve", "in", C9LowestFrass,
                                         C9FrassKg(req))) = 1
            /\ Len(Table(new, "move"))
                  = N * (Cardinality(C9Slots(req)) + (IF C9FrassKg(req) > 0 THEN 1 ELSE 0))
            /\ \A i \in ItemIds :
                  StockIn(store, i) = StockIn(pre, i) - C2Needed(req, i)
                     + (IF i = C9LowestFrass THEN N * C9FrassKg(req) ELSE 0)

\* two pallets, both feed slots and frass recorded
C9_Witness ==
    /\ pc = "done"
    /\ IsPro
    /\ resp.msg = "ok"
    /\ Cardinality(req.pallet_ids \cap PalletIds) = 2
    /\ Cardinality(C9Slots(req)) = 2
    /\ C9FrassKg(req) > 0
    /\ Len(Table(NewRows, "move")) = 6

(* C11: an item whose min_threshold and critical_threshold are both 0 or   *)
(* None has no STOCK alert of level RED or YELLOW on GET /ui/alerts,       *)
(* whatever its stock.                                                     *)
C11_NoAlertWithoutThresholds ==
    (pc = "done" /\ req.op = "ui_alerts") =>
        \A it \in ItemIds :
            (/\ ItemMinThreshold[it] \in {<<>>, <<0>>}
             /\ ItemCriticalThreshold[it] \in {<<>>, <<0>>}) =>
                ~\E k \in Idx(resp.alerts) :
                     /\ resp.alerts[k].scope = "STOCK"
                     /\ resp.alerts[k].code = it
                     /\ resp.alerts[k].level \in {"RED", "YELLOW"}

(* C12: import_inventario_as_snapshot does not duplicate: each item has at *)
(* most one StockMove with ref_type 'import_snapshot' and its id as        *)
(* ref_id, also when the CSV lists a product on several rows; a run over a *)
(* product that already has one adds no move for it and leaves its stock   *)
(* unchanged.                                                              *)
C12Snapshots(rows, ref_id) ==
    {k \in Idx(rows) : /\ rows[k].t = "move"
                       /\ rows[k].ref_type = "import_snapshot"
                       /\ rows[k].ref_id = ref_id}

C12_SnapshotNotDuplicated ==
    /\ \A i \in 1..(Cardinality(ItemIds) + MaxRequests) :
          Cardinality(C12Snapshots(store, str(i))) <= 1
    /\ (pc = "done" /\ req.op = "import_inventario_as_snapshot") =>
          \A k \in Idx(pre) :
              (pre[k].t = "move" /\ pre[k].ref_type = "import_snapshot") =>
                  /\ C12Snapshots(NewRows, pre[k].ref_id) = {}
                  /\ StockIn(store, pre[k].item_id) = StockIn(pre, pre[k].item_id)

(* C13: import_maestro_pallets is idempotent by pallet code: there is at   *)
(* most one Pallet per code, and a second run over the same CSV creates 0  *)
(* pallets and leaves every pallet as the first run left it.               *)
C13_MaestroIdempotent ==
    /\ \A j, k \in Idx(store) :
          (/\ store[j].t = "pallet"
           /\ store[k].t = "pallet"
           /\ store[j].code = store[k].code) => j = k
    /\ (/\ pc = "done"
        /\ req.op = "import_maestro_pallets"
        /\ last.prev = req) =>
          /\ resp.created = 0
          /\ Table(store, "pallet") = Table(pre, "pallet")

\* a second run over a CSV whose two rows spell the same code differently
C13_Witness ==
    /\ pc = "done"
    /\ req.op = "import_maestro_pallets"
    /\ last.prev = req
    /\ Len(req.csv) = 2
    /\ req.csv[1].id_palet # req.csv[2].id_palet
    /\ Upper(Strip(req.csv[1].id_palet)) = Upper(Strip(req.csv[2].id_palet))
    /\ req.csv[1].estado # req.csv[2].estado
    /\ Len(Table(store, "pallet")) = 1
    /\ resp.created = 0

(* C15: alerts are unique by code: there is at most one Alert row per code, *)
(* and after a run of generate_alerts every stock condition that holds has *)
(* exactly one row of its code (STOCK_CRIT_<item> or STOCK_LOW_<item>),    *)
(* unresolved: a condition that holds again updates that row.              *)
C15Alerts(code) ==
    {k \in Idx(store) : store[k].t = "alert" /\ store[k].code = code}

C15Code(it, qty) ==
    LET min_th == ThresholdOrZero(ItemMinThreshold[it])
        crit_th == ThresholdOrZero(ItemCriticalThreshold[it])
    IN  IF crit_th > 0 /\ qty <= crit_th THEN <<"STOCK_CRIT", it>>
        ELSE IF min_th > 0 /\ qty <= min_th THEN <<"STOCK_LOW", it>>
        ELSE <<>>

C15_AlertsUniqueByCode ==
    /\ \A j, k \in Idx(store) :
          (/\ store[j].t = "alert"
           /\ store[k].t = "alert"
           /\ store[j].code = store[k].code) => j = k
    /\ (pc = "done" /\ req.op = "generate_alerts") =>
          \A it \in ItemIds :
              C15Code(it, StockIn(pre, it)) # <<>> =>
                  /\ Cardinality(C15Alerts(C15Code(it, StockIn(pre, it)))) = 1
                  /\ \A k \in C15Alerts(C15Code(it, StockIn(pre, it))) :
                        ~store[k].is_resolved

(* C14: negative stock is blocked under concurrency: whatever the          *)
(* interleaving of the requests that take stock out of an item, each one   *)
(* checking get_stock_qty before it writes its 'out' moves, the committed  *)
(* stock of no item is ever negative.                                      *)
C14_StockNeverNegative ==
    \A i \in ItemIds : StockIn(store, i) >= 0

==========================================================================
